---- MODULE Spec2Model ----
(***************************************************************************)
(* Cash-drawer reconciliation (script.js): the field store, the mode       *)
(* converter, the validation rule, the totals calculator, the persisted    *)
(* snapshot, the debounce timers and the two greedy allocation views.      *)
(*                                                                         *)
(* Numbers.  The program computes in IEEE doubles on decimal strings.      *)
(* Here an amount is an integer number of UNITS, 100000 units to the euro  *)
(* (so 0.001 is 100 units and 0.19999 is 19999 units), and every operator  *)
(* computes the exact decimal result.  The input sets below hold no value  *)
(* whose exact result lies on a rounding tie or on an epsilon boundary,    *)
(* where the double result depends on the binary representation.           *)
(*                                                                         *)
(* Strings.  A field's text is kept as what the program reads from it:     *)
(* "empty" (the empty string, falsy), "nan" (non-empty text that           *)
(* parseFloat turns into NaN, such as "-" or "."), or "num" with the       *)
(* parsed value in units.                                                  *)
(***************************************************************************)
EXTENDS Integers, Sequences, FiniteSets, TLC

\* ------------------------------------------------------------------ bounds
\* The number of user actions of one run.
MaxSteps == 2
\* The largest selectable number of adjustment ("exoda") entries.
MaxExoda == 3

\* ------------------------------------------------------------------ numbers
UnitsPerCent == 10 * 100
Scale == 100 * UnitsPerCent

Eur(e) == e * Scale
Cents(c) == c * UnitsPerCent

Empty == [k |-> "empty", v |-> 0]
NaNStr == [k |-> "nan", v |-> 0]
Num(u) == [k |-> "num", v |-> u]

\* !input.value
IsEmpty(val) == val.k = "empty"
\* isNaN(parseFloat(input.value))
IsNaN(val) == val.k # "num"
\* parseFloat(input.value) || 0
ParseOrZero(val) == IF val.k = "num" THEN val.v ELSE 0

Min(a, b) == IF a < b THEN a ELSE b
Max(a, b) == IF a > b THEN a ELSE b
Range(s) == {s[i] : i \in 1..Len(s)}

\* Math.round(x * 100) / 100 on units: to the nearest cent, a half goes up.
RoundToCents(u) == ((u + (UnitsPerCent \div 2)) \div UnitsPerCent) * UnitsPerCent

\* x.toFixed(2): the nearest number of cents, a half goes away from zero.
ToFixed2(u) ==
    IF u >= 0 THEN (u + (UnitsPerCent \div 2)) \div UnitsPerCent
    ELSE -((-u + (UnitsPerCent \div 2)) \div UnitsPerCent)

\* Math.round(a / b) for b > 0: the nearest integer, a half goes up.
RoundDiv(a, b) == (2 * a + b) \div (2 * b)

\* Math.floor(a / b) for b > 0.
FloorDiv(a, b) == a \div b

\* a % b of JavaScript for b > 0: the sign of the result is the dividend's.
JsRem(a, b) == IF a >= 0 THEN a % b ELSE -((-a) % b)

\* ------------------------------------------------------------------ registry
bills == <<"bill-100", "bill-50", "bill-20", "bill-10", "bill-5">>
coins == <<"coin-2", "coin-1", "coin-0-5", "coin-0-2", "coin-0-1", "coin-0-05">>
other == <<"kermata", "wolt", "efood", "mypos", "eurobank">>

\* Face values in cents.
denominationCents ==
    [id \in Range(bills) \cup Range(coins) |->
        CASE id = "bill-100" -> 10000
          [] id = "bill-50" -> 5000
          [] id = "bill-20" -> 2000
          [] id = "bill-10" -> 1000
          [] id = "bill-5" -> 500
          [] id = "coin-2" -> 200
          [] id = "coin-1" -> 100
          [] id = "coin-0-5" -> 50
          [] id = "coin-0-2" -> 20
          [] id = "coin-0-1" -> 10
          [] id = "coin-0-05" -> 5]

\* denominationValues[id], in units.
denominationValues == [id \in DOMAIN denominationCents |-> Cents(denominationCents[id])]

denominationFields == bills \o coins
allFields == bills \o coins \o other

DenomIds == Range(denominationFields)
MainIds == Range(allFields)

\* denominationValues.hasOwnProperty(id)
IsDenomination(id) == id \in DOMAIN denominationValues

\* val * denom, in units (the product of a value in units and a face value).
TimesFace(u, id) ==
    LET c == denominationCents[id]
        q == u \div 100
        r == u % 100
    IN q * c + (r * c) \div 100

\* ------------------------------------------------------------------ validation
\* const epsilon = 0.001, in units.
epsilon == 100

\* Mutant: Amount mode without the test (denomination - remainder) < epsilon.
validateInputRemainderOnly(val, id, countMode) ==
    IF IsEmpty(val) THEN FALSE
    ELSE IF IsDenomination(id) THEN
        IF countMode THEN ~(~IsNaN(val) /\ val.v % Scale = 0 /\ val.v >= 0)
        ELSE ~IsNaN(val) /\ ~(JsRem(val.v, denominationValues[id]) < epsilon)
    ELSE FALSE

\* Mutant: Count mode without the test value >= 0.
validateInputNoSign(val, id, countMode) ==
    IF IsEmpty(val) THEN FALSE
    ELSE IF IsDenomination(id) THEN
        IF countMode THEN ~(~IsNaN(val) /\ val.v % Scale = 0)
        ELSE LET denomination == denominationValues[id]
                 remainder == JsRem(val.v, denomination)
             IN ~IsNaN(val) /\ ~(remainder < epsilon \/ (denomination - remainder) < epsilon)
    ELSE FALSE

\* validateInput(id): TRUE iff the field carries the class 'invalid' afterwards.
validateInput(val, id, countMode) ==
    IF IsEmpty(val) THEN FALSE
    ELSE IF IsDenomination(id) THEN
        IF countMode THEN
            LET isValid == ~IsNaN(val) /\ val.v % Scale = 0 /\ val.v >= 0
            IN ~isValid
        ELSE
            LET denomination == denominationValues[id]
                remainder == JsRem(val.v, denomination)
                \* every comparison with NaN is false
                isValidMultiple ==
                    ~IsNaN(val)
                    /\ (remainder < epsilon \/ (denomination - remainder) < epsilon)
            IN ~IsNaN(val) /\ ~isValidMultiple
    ELSE FALSE

\* ------------------------------------------------------------------ totals
\* let deductionsTotal = 1000
FixedDeduction == Eur(1000)

\* Mutant: wolt is not among the deduction channels.
deductionsWithoutWolt == <<"efood", "mypos", "eurobank">>

deductions == <<"wolt", "efood", "mypos", "eurobank">>

\* Mutant: the Count-mode product with the face value is forgotten.
FieldAmountAsTyped(f, id, countMode) == ParseOrZero(f[id])

\* One field's contribution to grandTotal in updateTotals' loop.
FieldAmount(f, id, countMode) ==
    LET rawValue == ParseOrZero(f[id])
    IN IF countMode /\ IsDenomination(id) THEN TimesFace(rawValue, id) ELSE rawValue

\* Mutant: the loop over the fields ends at the first empty field.
RECURSIVE SumAllFieldsUntilEmpty(_, _, _, _)
SumAllFieldsUntilEmpty(f, countMode, i, acc) ==
    IF i > Len(allFields) \/ IsEmpty(f[allFields[i]]) THEN acc
    ELSE SumAllFieldsUntilEmpty(f, countMode, i + 1,
                                acc + FieldAmount(f, allFields[i], countMode))

\* The forEach over allFields, from the i-th field on, added to acc.
RECURSIVE SumAllFields(_, _, _, _)
SumAllFields(f, countMode, i, acc) ==
    IF i > Len(allFields) THEN acc
    ELSE SumAllFields(f, countMode, i + 1, acc + FieldAmount(f, allFields[i], countMode))

\* getTotalExoda(): the loop over exoda-1 .. exoda-currentExodaCount.
RECURSIVE getTotalExoda(_, _, _, _)
getTotalExoda(ex, n, i, total) ==
    IF i > n THEN total
    ELSE getTotalExoda(ex, n, i + 1,
                       IF i \in DOMAIN ex THEN total + ParseOrZero(ex[i]) ELSE total)

\* Mutant: the loop stops before the last deduction channel.
RECURSIVE SumDeductionsButLast(_, _, _)
SumDeductionsButLast(f, i, acc) ==
    IF i > Len(deductions) - 1 THEN acc
    ELSE SumDeductionsButLast(f, i + 1, acc + ParseOrZero(f[deductions[i]]))

\* The forEach over the four deduction channels.
RECURSIVE SumDeductions(_, _, _)
SumDeductions(f, i, acc) ==
    IF i > Len(deductions) THEN acc
    ELSE SumDeductions(f, i + 1, acc + ParseOrZero(f[deductions[i]]))

\* formatCurrency(amount): the shown text, kept as its number of cents.
formatCurrency(amount) == ToFixed2(amount)

\* updateTotals(): the five shown totals.
updateTotals(f, ex, n, countMode) ==
    LET totalExoda == getTotalExoda(ex, n, 1, 0)
        grandTotal == SumAllFields(f, countMode, 1, 0) + totalExoda
        deductionsTotal == SumDeductions(f, 1, FixedDeduction + totalExoda)
        cashTotal == grandTotal - deductionsTotal
        cashLimTotal == cashTotal + totalExoda
        myposAmount == ParseOrZero(f["mypos"])
        eurobankAmount == ParseOrZero(f["eurobank"])
        incomeLimTotal == cashTotal + totalExoda + myposAmount + eurobankAmount
    IN [grandTotal |-> formatCurrency(grandTotal),
        totalExoda |-> formatCurrency(totalExoda),
        cashTotal |-> formatCurrency(cashTotal),
        cashLimTotal |-> formatCurrency(cashLimTotal),
        incomeLimTotal |-> formatCurrency(incomeLimTotal)]

\* ------------------------------------------------------------------ mode converter
\* Mutant: the amount is rounded to whole euros (toFixed(0)).
ConvertFieldWholeEuros(val, id, countMode) ==
    IF IsEmpty(val) THEN val
    ELSE IF IsNaN(val) \/ val.v = 0 THEN val
    ELSE LET denom == denominationValues[id]
         IN IF countMode
            THEN Num(Eur(RoundDiv(val.v, denom)))
            ELSE Num(Eur(RoundDiv(TimesFace(val.v, id), Scale)))

\* Mutant: the count is cut off (Math.floor) instead of rounded.
ConvertFieldFloor(val, id, countMode) ==
    IF IsEmpty(val) THEN val
    ELSE IF IsNaN(val) \/ val.v = 0 THEN val
    ELSE LET denom == denominationValues[id]
         IN IF countMode
            THEN Num(Eur(FloorDiv(val.v, denom)))
            ELSE Num(Cents(ToFixed2(TimesFace(val.v, id))))

\* The body of toggleInputMode's forEach for one denomination field.
ConvertField(val, id, countMode) ==
    IF IsEmpty(val) THEN val
    ELSE IF IsNaN(val) \/ val.v = 0 THEN val
    ELSE LET denom == denominationValues[id]
         IN IF countMode
            THEN Num(Eur(RoundDiv(val.v, denom)))
            ELSE Num(Cents(ToFixed2(TimesFace(val.v, id))))

\* The field store after toggleInputMode's conversion loop.
ConvertAll(f, countMode) ==
    [id \in DOMAIN f |-> IF id \in DenomIds THEN ConvertField(f[id], id, countMode) ELSE f[id]]

\* ------------------------------------------------------------------ allocation (calculateFakelos)
\* const billDenominations = [100, 50, 20, 10, 5], in units.
billDenominations == <<Eur(100), Eur(50), Eur(20), Eur(10), Eur(5)>>
\* const coinDenominations = [2, 1, 0.5, 0.2, 0.1, 0.05], in units.
coinDenominations == <<Eur(2), Eur(1), Cents(50), Cents(20), Cents(10), Cents(5)>>

\* The 0.001 added to the remainder before the coin division, in units.
coinEpsilon == 100

NoneUsed(denoms) == [d \in Range(denoms) |-> 0]

\* Mutant: the available count is cut off (Math.floor) instead of rounded.
FakelosCountFloor(val, denom, countMode) ==
    IF countMode THEN FloorDiv(ParseOrZero(val), Scale) ELSE FloorDiv(ParseOrZero(val), denom)

\* isCountMode ? Math.round(rawValue) : Math.round(rawValue / denom)
FakelosCount(val, denom, countMode) ==
    LET rawValue == ParseOrZero(val)
    IN IF countMode THEN RoundDiv(rawValue, Scale) ELSE RoundDiv(rawValue, denom)

\* billCounts / coinCounts of calculateFakelos: from face value to count.
FakelosCounts(f, ids, countMode) ==
    [d \in {denominationValues[id] : id \in Range(ids)} |->
        LET id == CHOOSE x \in Range(ids) : denominationValues[x] = d
        IN FakelosCount(f[id], d, countMode)]

\* Mutant: every bill in stock is taken, needed or not.
FakelosBillUsedAllStock(remaining, denom, billCounts) == billCounts[denom]

\* Mutant: the bills needed are taken without regard to the stock.
FakelosBillUsedNoStock(remaining, denom, billCounts) == FloorDiv(remaining, denom)

FakelosBillUsed(remaining, denom, billCounts) ==
    LET needed == FloorDiv(remaining, denom)
        available == billCounts[denom]
    IN Min(needed, available)

\* Mutant: the coins needed are rounded up, so that the last coin may overshoot.
FakelosCoinUsedRoundUp(remaining, denom, coinCounts) ==
    Min(FloorDiv(remaining + denom - UnitsPerCent, denom), coinCounts[denom])

\* Mutant: the coins needed are taken without regard to the stock.
FakelosCoinUsedNoStock(remaining, denom, coinCounts) ==
    FloorDiv(remaining + coinEpsilon, denom)

FakelosCoinUsed(remaining, denom, coinCounts) ==
    LET needed == FloorDiv(remaining + coinEpsilon, denom)
        available == coinCounts[denom]
    IN Min(needed, available)

\* "First, use bills": the loop from the i-th bill on.
RECURSIVE FakelosBills(_, _, _)
FakelosBills(i, st, billCounts) ==
    IF i > Len(billDenominations) \/ st.remaining <= 0 THEN st
    ELSE LET denom == billDenominations[i]
             used == FakelosBillUsed(st.remaining, denom, billCounts)
         IN IF used > 0
            THEN FakelosBills(i + 1,
                    [remaining |-> RoundToCents(st.remaining - used * denom),
                     used |-> [st.used EXCEPT ![denom] = used],
                     total |-> st.total + used * denom],
                    billCounts)
            ELSE FakelosBills(i + 1, st, billCounts)

\* "Then, use coins for the remainder": the loop from the i-th coin on.
RECURSIVE FakelosCoins(_, _, _)
FakelosCoins(i, st, coinCounts) ==
    IF i > Len(coinDenominations) \/ st.remaining <= 0 THEN st
    ELSE LET denom == coinDenominations[i]
             used == FakelosCoinUsed(st.remaining, denom, coinCounts)
         IN IF used > 0
            THEN FakelosCoins(i + 1,
                    [remaining |-> RoundToCents(st.remaining - used * denom),
                     used |-> [st.used EXCEPT ![denom] = used],
                     total |-> st.total + used * denom],
                    coinCounts)
            ELSE FakelosCoins(i + 1, st, coinCounts)

\* The 0.001 above which calculateFakelos shows the uncovered amount, in units.
shortfallEpsilon == 100

\* Math.max(0, (counts[denom] || 0) - (used[denom] || 0))
LeftOf(counts, used, denom) == Max(0, counts[denom] - used[denom])

\* The listed items <<count, denom>> of one section, in the order of denoms.
RECURSIVE UsedItems(_, _, _)
UsedItems(denoms, used, i) ==
    IF i > Len(denoms) THEN <<>>
    ELSE (IF used[denoms[i]] > 0 THEN << <<used[denoms[i]], denoms[i]>> >> ELSE <<>>)
         \o UsedItems(denoms, used, i + 1)

LeftItems(denoms, counts, used) ==
    [i \in 1..Len(denoms) |-> <<LeftOf(counts, used, denoms[i]), denoms[i]>>]

RECURSIVE LeftTotal(_, _, _, _)
LeftTotal(denoms, counts, used, i) ==
    IF i > Len(denoms) THEN 0
    ELSE LeftOf(counts, used, denoms[i]) * denoms[i] + LeftTotal(denoms, counts, used, i + 1)

NoHtml ==
    [message |-> "", put |-> <<>>, putTotal |-> 0, hasKeep |-> FALSE, keep |-> <<>>,
     keepTotal |-> 0, hasWarning |-> FALSE, warning |-> 0]

\* The breakdown written to #fakelos-breakdown.
FakelosHtml(cashTotal, billCounts, coinCounts, usedBills, usedCoins, grandTotal, remaining) ==
    IF cashTotal <= 0 THEN [NoHtml EXCEPT !.message = "noCash"]
    ELSE LET hasBills == \E d \in DOMAIN usedBills : usedBills[d] > 0
             hasCoins == \E d \in DOMAIN usedCoins : usedCoins[d] > 0
         IN [message |-> IF ~hasBills /\ ~hasCoins THEN "noStock" ELSE "",
             put |-> UsedItems(billDenominations, usedBills, 1)
                     \o UsedItems(coinDenominations, usedCoins, 1),
             putTotal |-> IF hasBills \/ hasCoins THEN ToFixed2(grandTotal) ELSE 0,
             hasKeep |-> TRUE,
             keep |-> LeftItems(billDenominations, billCounts, usedBills)
                      \o LeftItems(coinDenominations, coinCounts, usedCoins),
             keepTotal |-> ToFixed2(LeftTotal(billDenominations, billCounts, usedBills, 1)
                                    + LeftTotal(coinDenominations, coinCounts, usedCoins, 1)),
             hasWarning |-> remaining > shortfallEpsilon,
             warning |-> IF remaining > shortfallEpsilon THEN ToFixed2(remaining) ELSE 0]

\* calculateFakelos(): its locals at the end of the handler and what it shows.
calculateFakelos(f, countMode, shownCashTotal) ==
    LET cashTotal == Cents(shownCashTotal)
        billCounts == FakelosCounts(f, bills, countMode)
        coinCounts == FakelosCounts(f, coins, countMode)
        afterBills == FakelosBills(1, [remaining |-> RoundToCents(cashTotal),
                                       used |-> NoneUsed(billDenominations),
                                       total |-> 0], billCounts)
        afterCoins == FakelosCoins(1, [remaining |-> afterBills.remaining,
                                       used |-> NoneUsed(coinDenominations),
                                       total |-> 0], coinCounts)
    IN [shown |-> TRUE,
        cashTotal |-> cashTotal,
        billCounts |-> billCounts,
        coinCounts |-> coinCounts,
        usedBills |-> afterBills.used,
        usedCoins |-> afterCoins.used,
        remaining |-> afterCoins.remaining,
        html |-> FakelosHtml(cashTotal, billCounts, coinCounts, afterBills.used,
                             afterCoins.used, afterBills.total + afterCoins.total,
                             afterCoins.remaining)]

\* ------------------------------------------------------------------ allocation (showStelno)
\* const billDenoms = [100, 50, 20, 10, 5], in units.
billDenoms == <<Eur(100), Eur(50), Eur(20), Eur(10), Eur(5)>>
\* const coinDenoms = [2, 1, 0.5, 0.2, 0.1, 0.05], in units.
coinDenoms == <<Eur(2), Eur(1), Cents(50), Cents(20), Cents(10), Cents(5)>>

\* The 0.001 added to the remainder before the coin division, in units.
stelnoEpsilon == 100

\* isCountMode ? Math.round(rawValue) : Math.round(rawValue / denom)
StelnoCount(val, denom, countMode) ==
    LET rawValue == ParseOrZero(val)
    IN IF countMode THEN RoundDiv(rawValue, Scale) ELSE RoundDiv(rawValue, denom)

\* billCounts / coinCounts of showStelno: from face value to count.
StelnoCounts(f, ids, countMode) ==
    [d \in {denominationValues[id] : id \in Range(ids)} |->
        LET id == CHOOSE x \in Range(ids) : denominationValues[x] = d
        IN StelnoCount(f[id], d, countMode)]

\* counts[denom] || 0
OrZero(counts, denom) == IF denom \in DOMAIN counts THEN counts[denom] ELSE 0

\* Mutant: never more than one bill of a kind is taken.
StelnoBillUsedAtMostOne(remaining, denom, billCounts) ==
    Min(Min(FloorDiv(remaining, denom), 1), OrZero(billCounts, denom))

StelnoBillUsed(remaining, denom, billCounts) ==
    Min(FloorDiv(remaining, denom), OrZero(billCounts, denom))

\* Mutant: the coins needed are taken without regard to the stock.
StelnoCoinUsedNoStock(remaining, denom, coinCounts) ==
    FloorDiv(remaining + stelnoEpsilon, denom)

StelnoCoinUsed(remaining, denom, coinCounts) ==
    Min(FloorDiv(remaining + stelnoEpsilon, denom), OrZero(coinCounts, denom))

\* The loop over billDenoms from the i-th on.
RECURSIVE StelnoBills(_, _, _)
StelnoBills(i, st, billCounts) ==
    IF i > Len(billDenoms) \/ st.remaining <= 0 THEN st
    ELSE LET denom == billDenoms[i]
             used == StelnoBillUsed(st.remaining, denom, billCounts)
         IN IF used > 0
            THEN StelnoBills(i + 1,
                    [remaining |-> RoundToCents(st.remaining - used * denom),
                     used |-> [st.used EXCEPT ![denom] = used]],
                    billCounts)
            ELSE StelnoBills(i + 1, st, billCounts)

\* The loop over coinDenoms from the i-th on.
RECURSIVE StelnoCoins(_, _, _)
StelnoCoins(i, st, coinCounts) ==
    IF i > Len(coinDenoms) \/ st.remaining <= 0 THEN st
    ELSE LET denom == coinDenoms[i]
             used == StelnoCoinUsed(st.remaining, denom, coinCounts)
         IN IF used > 0
            THEN StelnoCoins(i + 1,
                    [remaining |-> RoundToCents(st.remaining - used * denom),
                     used |-> [st.used EXCEPT ![denom] = used]],
                    coinCounts)
            ELSE StelnoCoins(i + 1, st, coinCounts)

\* Math.max(0, (counts[denom] || 0) - (used[denom] || 0)) for every denom, in order.
StelnoLeft(denoms, counts, used) ==
    [i \in 1..Len(denoms) |->
        <<Max(0, OrZero(counts, denoms[i]) - OrZero(used, denoms[i])), denoms[i]>>]

\* showStelno(): its locals at the end of the handler and the rows of the popup.
showStelno(f, countMode, shown) ==
    LET billCounts == StelnoCounts(f, bills, countMode)
        coinCounts == StelnoCounts(f, coins, countMode)
        cashTotal == Cents(shown.cashTotal)
        afterBills == StelnoBills(1, [remaining |-> RoundToCents(cashTotal),
                                      used |-> NoneUsed(billDenoms)], billCounts)
        afterCoins == StelnoCoins(1, [remaining |-> afterBills.remaining,
                                      used |-> NoneUsed(coinDenoms)], coinCounts)
    IN [shown |-> TRUE,
        cashTotal |-> cashTotal,
        billCounts |-> billCounts,
        coinCounts |-> coinCounts,
        usedBills |-> afterBills.used,
        usedCoins |-> afterCoins.used,
        remaining |-> afterCoins.remaining,
        html |-> [tameioVal |-> shown.grandTotal,
                  cashVal |-> shown.cashTotal,
                  exodaVal |-> shown.totalExoda,
                  bills |-> StelnoLeft(billDenoms, billCounts, afterBills.used),
                  coins |-> StelnoLeft(coinDenoms, coinCounts, afterCoins.used),
                  kermataVal |-> formatCurrency(ParseOrZero(f["kermata"]))]]

\* ------------------------------------------------------------------ state
VARIABLES
    fields,             \* cachedInputs[id].value of the 16 fixed fields
    exoda,              \* cachedInputs['exoda-i'].value, i in 1..currentExodaCount
    invalid,            \* the fields that carry the class 'invalid'
    isCountMode,
    currentExodaCount,
    totals,             \* the text of the five outputs, in cents
    storage,            \* localStorage
    timers,             \* the debounce timers that are set
    fakelos,            \* the last run of calculateFakelos and #fakelos-breakdown
    stelno,             \* the last run of showStelno and #stelno-body
    lastOp,             \* the handler that ran last
    steps               \* the user actions so far

vars == <<fields, exoda, invalid, isCountMode, currentExodaCount, totals, storage,
          timers, fakelos, stelno, lastOp, steps>>

EmptyFields == [id \in MainIds |-> Empty]
WithValues(g) == [id \in MainIds |-> IF id \in DOMAIN g THEN g[id] ELSE Empty]
ExodaValues(s) == [i \in 1..MaxExoda |-> IF i <= Len(s) THEN s[i] ELSE Empty]

\* Mutant: the key countMode is left behind.
StorageKeepsMode ==
    [hasAllValues |-> FALSE, main |-> [id \in MainIds |-> Empty],
     exoda |-> [i \in 1..MaxExoda |-> Empty],
     hasSavedAt |-> FALSE, exodaCount |-> 0, countMode |-> "true"]

\* localStorage with none of the program's keys.
NoStorage ==
    [hasAllValues |-> FALSE, main |-> EmptyFields, exoda |-> ExodaValues(<<>>),
     hasSavedAt |-> FALSE, exodaCount |-> 0, countMode |-> "absent"]

\* localStorage as an earlier session left it: what saveAllValues and the
\* dropdown's change listener write.
Saved(g, s, n, countMode) ==
    [hasAllValues |-> TRUE, main |-> WithValues(g), exoda |-> ExodaValues(s),
     hasSavedAt |-> TRUE, exodaCount |-> n, countMode |-> IF countMode THEN "true" ELSE "false"]

\* The persisted snapshots a session may start from.
InitialStorages ==
    { NoStorage,
      \* Amount mode, only the safe: a cash total of 100.00 and no stock at all.
      Saved("kermata" :> Num(Eur(1100)), <<>>, 0, FALSE),
      \* Count mode: a cash total of 135.65 against 1 x 100, 1 x 50, 1 x 0.20, 3 x 0.05.
      Saved("bill-100" :> Num(Eur(1)) @@ "bill-50" :> Num(Eur(1)) @@ "coin-0-2" :> Num(Eur(1))
            @@ "coin-0-05" :> Num(Eur(3)) @@ "kermata" :> Num(Cents(98530)),
            <<>>, 0, TRUE),
      \* Amount mode, three adjustment entries and card channels: a cash total of 260.00.
      Saved("bill-20" :> Num(Eur(60)) @@ "kermata" :> Num(Eur(1200)) @@ "mypos" :> Num(Eur(50))
            @@ "wolt" :> Num(Eur(25)),
            <<Num(Eur(10)), Num(Cents(2050)), Num(Eur(30))>>, 3, FALSE),
      \* Count mode with a negative, a fractional, a non-numeric and a whole count.
      Saved("bill-10" :> Num(Eur(-2)) @@ "coin-1" :> Num(Cents(250)) @@ "bill-5" :> NaNStr
            @@ "coin-0-2" :> Num(Eur(4)) @@ "kermata" :> Num(Eur(1020)),
            <<>>, 0, TRUE),
      \* Count mode: a cash total of 135.00 against 1 x 100 and 1 x 50, no coins.
      Saved("bill-100" :> Num(Eur(1)) @@ "bill-50" :> Num(Eur(1)) @@ "kermata" :> Num(Eur(985)),
            <<>>, 0, TRUE),
      \* Count mode: a cash total of 17.35 against 5 x 2, 5 x 1, 2 x 0.50, 1 x 0.20, no bills.
      Saved("coin-2" :> Num(Eur(5)) @@ "coin-1" :> Num(Eur(5)) @@ "coin-0-5" :> Num(Eur(2))
            @@ "coin-0-2" :> Num(Eur(1)) @@ "kermata" :> Num(Cents(100115)),
            <<>>, 0, TRUE) }

\* What the user may leave in a fixed field by typing (after handleCommaInput).
EditInputs ==
    { <<"bill-100", Num(Eur(2))>>,
      <<"bill-50", NaNStr>>,
      <<"bill-50", Empty>>,
      <<"bill-20", Num(Eur(-30))>>,
      <<"coin-0-2", Num(19999)>>,
      <<"coin-0-05", Num(Cents(15))>>,
      <<"kermata", Num(Eur(1100))>>,
      <<"kermata", Empty>>,
      <<"wolt", Num(Eur(25))>>,
      <<"efood", Num(Cents(1250))>>,
      <<"mypos", Num(Cents(4050))>>,
      <<"eurobank", Num(Eur(7))>> }

\* What the user may leave in an adjustment entry by typing.
ExodaInputs == {Num(Eur(10)), Empty}

Hidden == [shown |-> FALSE]

\* ------------------------------------------------------------------ persistence
\* saveAllValues(): only non-empty values are written.
saveAllValues(f, ex, n, countMode, st) ==
    [st EXCEPT !.hasAllValues = TRUE,
               !.main = f,
               !.exoda = [i \in 1..MaxExoda |-> IF i <= n /\ i \in DOMAIN ex THEN ex[i] ELSE Empty],
               !.hasSavedAt = TRUE,
               !.countMode = IF countMode THEN "true" ELSE "false"]

\* Mutant: the existing values are not put back into the new inputs.
createExodaFieldsAllEmpty(ex, n, count) == [i \in 1..count |-> Empty]

\* createExodaFields(count): the values kept from the entries there were.
createExodaFields(ex, n, count) ==
    [i \in 1..count |-> IF i <= n /\ i \in DOMAIN ex /\ ~IsEmpty(ex[i]) THEN ex[i] ELSE Empty]

\* The select's value when nothing was saved (parseInt(value) || 1).
DefaultExodaCount == 1

\* restoreAllValues() has removed the expired keys (and only those).
ExpiredStorage(st) ==
    [st EXCEPT !.hasAllValues = FALSE, !.main = EmptyFields, !.exoda = ExodaValues(<<>>),
               !.hasSavedAt = FALSE, !.exodaCount = 0]

\* init() on a fresh page: the state it leaves, from localStorage st;
\* expired says that Date.now() is more than 3600000 ms after st's save.
SessionStart(st, expired) ==
    LET initialCount == IF st.exodaCount # 0 THEN st.exodaCount ELSE DefaultExodaCount
        created == createExodaFields(<<>>, 0, initialCount)
        isExpired == st.hasSavedAt /\ expired
        countMode == ~isExpired /\ st.countMode = "true"
        restore == ~isExpired /\ st.hasAllValues
        f == IF restore
             THEN [id \in MainIds |-> IF ~IsEmpty(st.main[id]) THEN st.main[id] ELSE Empty]
             ELSE EmptyFields
        ex == IF restore
              THEN [i \in 1..initialCount |->
                       IF ~IsEmpty(st.exoda[i]) THEN st.exoda[i] ELSE created[i]]
              ELSE created
    IN [fields |-> f,
        exoda |-> ex,
        invalid |-> {},
        isCountMode |-> countMode,
        currentExodaCount |-> initialCount,
        totals |-> updateTotals(f, ex, initialCount, countMode),
        storage |-> IF isExpired THEN ExpiredStorage(st) ELSE st]

Init ==
    /\ \E st \in InitialStorages : \E expired \in BOOLEAN :
           /\ expired => st.hasSavedAt
           /\ LET s == SessionStart(st, expired)
              IN /\ fields = s.fields
                 /\ exoda = s.exoda
                 /\ invalid = s.invalid
                 /\ isCountMode = s.isCountMode
                 /\ currentExodaCount = s.currentExodaCount
                 /\ totals = s.totals
                 /\ storage = s.storage
    /\ timers = {}
    /\ fakelos = Hidden
    /\ stelno = Hidden
    /\ lastOp = "init"
    /\ steps = 0

\* ------------------------------------------------------------------ timers
\* debounce(func, wait): one timer per debounced function.  init() makes the
\* pair of the fixed fields; createExodaFields makes one debounced update per
\* call and one debounced save per entry.  The timers of a replaced entry
\* list stay set and still fire: they are kept as "old".
UpdateMain == <<"update", "main", 0>>
SaveMain == <<"save", "main", 0>>
UpdateExoda == <<"update", "exoda", 0>>
SaveExoda(i) == <<"save", "exoda", i>>

\* The timers after createExodaFields has replaced the entries.
Outdated(ts) ==
    {t \in ts : t[2] = "main"} \cup {<<t[1], "old", 0>> : t \in {u \in ts : u[2] # "main"}}

\* ------------------------------------------------------------------ handlers
\* The 'input' listener of a fixed field.
InputMain(id, val) ==
    /\ steps < MaxSteps
    /\ <<id, val>> \in EditInputs
    /\ fields[id] # val
    /\ fields' = [fields EXCEPT ![id] = val]
    /\ invalid' = IF validateInput(val, id, isCountMode)
                  THEN invalid \cup {id} ELSE invalid \ {id}
    /\ timers' = timers \cup {UpdateMain, SaveMain}
    /\ lastOp' = "input"
    /\ steps' = steps + 1
    /\ UNCHANGED <<exoda, isCountMode, currentExodaCount, totals, storage, fakelos, stelno>>

\* The 'input' listener of adjustment entry i.
InputExoda(i, val) ==
    /\ steps < MaxSteps
    /\ i \in 1..currentExodaCount
    /\ val \in ExodaInputs
    /\ exoda[i] # val
    /\ exoda' = [exoda EXCEPT ![i] = val]
    /\ timers' = timers \cup {UpdateExoda, SaveExoda(i)}
    /\ lastOp' = "input"
    /\ steps' = steps + 1
    /\ UNCHANGED <<fields, invalid, isCountMode, currentExodaCount, totals, storage,
                   fakelos, stelno>>

\* A debounced updateTotals fires.
FireUpdate(t) ==
    /\ t \in timers
    /\ t[1] = "update"
    /\ timers' = timers \ {t}
    /\ totals' = updateTotals(fields, exoda, currentExodaCount, isCountMode)
    /\ lastOp' = "updateTimer"
    /\ UNCHANGED <<fields, exoda, invalid, isCountMode, currentExodaCount, storage,
                   fakelos, stelno, steps>>

\* A debounced saveAllValues fires.
FireSave(t) ==
    /\ t \in timers
    /\ t[1] = "save"
    /\ timers' = timers \ {t}
    /\ storage' = saveAllValues(fields, exoda, currentExodaCount, isCountMode, storage)
    /\ lastOp' = "saveTimer"
    /\ UNCHANGED <<fields, exoda, invalid, isCountMode, currentExodaCount, totals,
                   fakelos, stelno, steps>>

\* Mutant: the early return is missing.
ToggleNeverReturnsEarly(current, countMode) == FALSE

\* if (isCountMode === countMode) return;
ToggleReturnsEarly(current, countMode) == current = countMode

\* toggleInputMode(countMode)
toggleInputMode(countMode) ==
    /\ steps < MaxSteps
    /\ steps' = steps + 1
    /\ IF ToggleReturnsEarly(isCountMode, countMode)
       THEN /\ lastOp' = "toggleNoop"
            /\ UNCHANGED <<fields, exoda, invalid, isCountMode, currentExodaCount, totals,
                           storage, timers, fakelos, stelno>>
       ELSE LET f == ConvertAll(fields, countMode)
            IN /\ fields' = f
               /\ isCountMode' = countMode
               /\ invalid' = {id \in DenomIds : validateInput(f[id], id, countMode)}
               /\ totals' = updateTotals(f, exoda, currentExodaCount, countMode)
               /\ storage' = saveAllValues(f, exoda, currentExodaCount, countMode, storage)
               /\ lastOp' = "toggle"
               /\ UNCHANGED <<exoda, currentExodaCount, timers, fakelos, stelno>>

\* The 'change' listener of the exoda-count dropdown.
ExodaCountChange(count) ==
    /\ steps < MaxSteps
    /\ count \in 1..MaxExoda
    /\ count # currentExodaCount
    /\ LET ex == createExodaFields(exoda, currentExodaCount, count)
       IN /\ exoda' = ex
          /\ currentExodaCount' = count
          /\ storage' = [storage EXCEPT !.exodaCount = count]
          /\ totals' = updateTotals(fields, ex, count, isCountMode)
    /\ timers' = Outdated(timers)
    /\ lastOp' = "exodaCount"
    /\ steps' = steps + 1
    /\ UNCHANGED <<fields, invalid, isCountMode, fakelos, stelno>>

\* The 'pagehide' listener.
PageHide ==
    /\ steps < MaxSteps
    /\ storage' = saveAllValues(fields, exoda, currentExodaCount, isCountMode, storage)
    /\ lastOp' = "pagehide"
    /\ steps' = steps + 1
    /\ UNCHANGED <<fields, exoda, invalid, isCountMode, currentExodaCount, totals, timers,
                   fakelos, stelno>>

\* resetAll(); confirmed is the answer to confirm().
resetAll(confirmed) ==
    /\ steps < MaxSteps
    /\ steps' = steps + 1
    /\ IF confirmed
       THEN LET ex == [i \in 1..currentExodaCount |-> Empty]
            IN /\ fields' = EmptyFields
               /\ exoda' = ex
               /\ invalid' = {}
               /\ storage' = [NoStorage EXCEPT !.exodaCount = 0]
               /\ isCountMode' = FALSE
               /\ totals' = updateTotals(EmptyFields, ex, currentExodaCount, FALSE)
               /\ lastOp' = "reset"
               /\ UNCHANGED <<currentExodaCount, timers, fakelos, stelno>>
       ELSE /\ lastOp' = "resetDeclined"
            /\ UNCHANGED <<fields, exoda, invalid, isCountMode, currentExodaCount, totals,
                           storage, timers, fakelos, stelno>>

\* The click on #fakelos-btn.
CalculateFakelos ==
    /\ steps < MaxSteps
    /\ fakelos' = calculateFakelos(fields, isCountMode, totals.cashTotal)
    /\ lastOp' = "fakelos"
    /\ steps' = steps + 1
    /\ UNCHANGED <<fields, exoda, invalid, isCountMode, currentExodaCount, totals, storage,
                   timers, stelno>>

\* The click on #stelno-btn.
ShowStelno ==
    /\ steps < MaxSteps
    /\ stelno' = showStelno(fields, isCountMode, totals)
    /\ lastOp' = "stelno"
    /\ steps' = steps + 1
    /\ UNCHANGED <<fields, exoda, invalid, isCountMode, currentExodaCount, totals, storage,
                   timers, fakelos>>

\* The page is loaded again: init() runs on what localStorage holds.
Reload(expired) ==
    /\ steps < MaxSteps
    /\ expired => storage.hasSavedAt
    /\ LET s == SessionStart(storage, expired)
       IN /\ fields' = s.fields
          /\ exoda' = s.exoda
          /\ invalid' = s.invalid
          /\ isCountMode' = s.isCountMode
          /\ currentExodaCount' = s.currentExodaCount
          /\ totals' = s.totals
          /\ storage' = s.storage
    /\ timers' = {}
    /\ fakelos' = Hidden
    /\ stelno' = Hidden
    /\ lastOp' = "init"
    /\ steps' = steps + 1

Next ==
    \/ \E id \in MainIds : \E val \in {e[2] : e \in EditInputs} : InputMain(id, val)
    \/ \E i \in 1..MaxExoda : \E val \in ExodaInputs : InputExoda(i, val)
    \/ \E t \in timers : FireUpdate(t)
    \/ \E t \in timers : FireSave(t)
    \/ \E countMode \in BOOLEAN : toggleInputMode(countMode)
    \/ \E count \in 1..MaxExoda : ExodaCountChange(count)
    \/ PageHide
    \/ \E confirmed \in BOOLEAN : resetAll(confirmed)
    \/ CalculateFakelos
    \/ ShowStelno
    \/ \E expired \in BOOLEAN : Reload(expired)

Spec == Init /\ [][Next]_vars

\* Every set timer fires in the end (setTimeout's callback, script.js:40-43).
TimersFire ==
    /\ WF_vars(\E t \in timers : FireUpdate(t))
    /\ WF_vars(\E t \in timers : FireSave(t))

SpecLive == Spec /\ TimersFire

\* ------------------------------------------------------------------ the allocation alone
\* The two allocation views as functions of (target, counts): sessions that
\* start in Count mode on a stock of bills and coins and a cash total, and in
\* which only the two views are opened.
\* The counts a denomination field may hold at the start.
AllocCounts(id) ==
    CASE id = "bill-20" -> <<0, 3>>
      [] id = "bill-5" -> <<0, 2, -1>>
      [] id \in {"coin-2", "coin-1"} -> <<0, 5>>
      [] id \in {"coin-0-5", "coin-0-1"} -> <<0, 2>>
      [] id = "coin-0-05" -> <<0, 3>>
      [] OTHER -> <<0, 1>>

\* The stocks: one of its counts for every denomination.
AllocStocks ==
    {[id \in DenomIds |-> AllocCounts(id)[pick[id]]] :
        pick \in {p \in [DenomIds -> 1..3] : \A id \in DenomIds : p[id] <= Len(AllocCounts(id))}}

\* The cash totals, in cents.
AllocTargets == {5, 15, 1735, 6000, 13500, 13565}

\* The value of a stock, in units.
RECURSIVE StockValue(_, _)
StockValue(stock, i) ==
    IF i > Len(allFields) THEN 0
    ELSE (IF IsDenomination(allFields[i])
          THEN stock[allFields[i]] * denominationValues[allFields[i]] ELSE 0)
         + StockValue(stock, i + 1)

\* The fields of a Count-mode session with this stock and this cash total:
\* the safe (kermata) holds what makes the total come out.
AllocFields(stock, target) ==
    [id \in MainIds |->
        IF IsDenomination(id)
        THEN IF stock[id] = 0 THEN Empty ELSE Num(Eur(stock[id]))
        ELSE IF id = "kermata"
             THEN Num(FixedDeduction + Cents(target) - StockValue(stock, 1))
             ELSE Empty]

InitAlloc ==
    /\ \E stock \in AllocStocks : \E target \in AllocTargets :
           /\ LET s == SessionStart(Saved(AllocFields(stock, target), <<>>, 0, TRUE), FALSE)
              IN /\ fields = s.fields
                 /\ exoda = s.exoda
                 /\ invalid = s.invalid
                 /\ isCountMode = s.isCountMode
                 /\ currentExodaCount = s.currentExodaCount
                 /\ totals = s.totals
                 /\ storage = s.storage
    /\ timers = {}
    /\ fakelos = Hidden
    /\ stelno = Hidden
    /\ lastOp = "init"
    /\ steps = 0

NextAlloc ==
    \/ CalculateFakelos
    \/ ShowStelno

SpecAlloc == InitAlloc /\ [][NextAlloc]_vars

\* ------------------------------------------------------------------ reference totals
\* The totals as section 4.3 writes them, over the values in force.
RefFieldAmount(id) ==
    IF id \in DenomIds /\ isCountMode
    THEN TimesFace(ParseOrZero(fields[id]), id)
    ELSE ParseOrZero(fields[id])

RECURSIVE RefAdjustments(_)
RefAdjustments(S) ==
    IF S = {} THEN 0
    ELSE LET i == CHOOSE x \in S : TRUE
         IN ParseOrZero(exoda[i]) + RefAdjustments(S \ {i})

RefAdjustmentsTotal == RefAdjustments(1..currentExodaCount)

RefGrandTotal ==
    RefFieldAmount("coin-0-05") + RefFieldAmount("coin-0-1") + RefFieldAmount("coin-0-2")
    + RefFieldAmount("coin-0-5") + RefFieldAmount("coin-1") + RefFieldAmount("coin-2")
    + RefFieldAmount("bill-5") + RefFieldAmount("bill-10") + RefFieldAmount("bill-20")
    + RefFieldAmount("bill-50") + RefFieldAmount("bill-100")
    + RefFieldAmount("eurobank") + RefFieldAmount("mypos") + RefFieldAmount("efood")
    + RefFieldAmount("wolt") + RefFieldAmount("kermata")
    + RefAdjustmentsTotal

RefChannel(id) == ParseOrZero(fields[id])

RefCashTotal ==
    RefGrandTotal - (Eur(1000) + RefAdjustmentsTotal + RefChannel("wolt") + RefChannel("efood")
                     + RefChannel("mypos") + RefChannel("eurobank"))

\* The handlers that end with the totals recomputed from the values they leave.
RecomputeOps == {"init", "updateTimer", "toggle", "exodaCount", "reset"}
TotalsJustRecomputed == lastOp \in RecomputeOps

\* The eleven <<leftover, face value>> rows and the counts and uses they belong to.
AllDenoms == billDenominations \o coinDenominations
CountsOf(run) == [d \in Range(AllDenoms) |->
                    IF d \in DOMAIN run.billCounts THEN run.billCounts[d] ELSE run.coinCounts[d]]
UsedOf(run) == [d \in Range(AllDenoms) |->
                    IF d \in DOMAIN run.usedBills THEN run.usedBills[d] ELSE run.usedCoins[d]]
StelnoRows == stelno.html.bills \o stelno.html.coins

\* ------------------------------------------------------------------ claims
\* C1: in every allocation view computed from the field store, no denomination
\* is used more often than its available count, and used + leftover = count
\* for each of the 11 denominations.
C1_UsedWithinCounts ==
    /\ stelno.shown =>
           \A i \in 1..Len(AllDenoms) :
               LET d == AllDenoms[i]
               IN /\ UsedOf(stelno)[d] <= CountsOf(stelno)[d]
                  /\ UsedOf(stelno)[d] + StelnoRows[i][1] = CountsOf(stelno)[d]
    /\ (fakelos.shown /\ fakelos.html.hasKeep) =>
           \A i \in 1..Len(AllDenoms) :
               LET d == AllDenoms[i]
               IN /\ UsedOf(fakelos)[d] <= CountsOf(fakelos)[d]
                  /\ UsedOf(fakelos)[d] + fakelos.html.keep[i][1] = CountsOf(fakelos)[d]

\* C2: right after either allocation view is computed, the target it allocated
\* against is the cash total of the field values and mode in force, rounded to
\* 2 decimals, also when a debounced recompute is still pending.
C2_TargetIsCurrentCashTotal ==
    /\ lastOp = "fakelos" => RoundToCents(fakelos.cashTotal) = RoundToCents(RefCashTotal)
    /\ lastOp = "stelno" => RoundToCents(stelno.cashTotal) = RoundToCents(RefCashTotal)

\* C3: a view computed for a positive target that ends with more than 0.001
\* uncovered shows that uncovered amount: the breakdown in its warning, the
\* summary popup in a row of its own.
C3_ShortfallReported ==
    /\ (fakelos.shown /\ fakelos.cashTotal > 0 /\ fakelos.remaining > 100) =>
           (fakelos.html.hasWarning /\ fakelos.html.warning = ToFixed2(fakelos.remaining))
    /\ (stelno.shown /\ stelno.cashTotal > 0 /\ stelno.remaining > 100) =>
           ("shortfall" \in DOMAIN stelno.html
            /\ stelno.html["shortfall"] = ToFixed2(stelno.remaining))

\* C4: when the summary view and the breakdown view were computed for the same
\* target and the same available counts, they hold the same used counts, the
\* same uncovered remainder and (where the breakdown lists them) the same
\* leftover counts for every denomination.
SameAllocationInputs ==
    /\ fakelos.shown
    /\ stelno.shown
    /\ fakelos.cashTotal = stelno.cashTotal
    /\ fakelos.billCounts = stelno.billCounts
    /\ fakelos.coinCounts = stelno.coinCounts

C4_ViewsAgree ==
    SameAllocationInputs =>
        /\ fakelos.usedBills = stelno.usedBills
        /\ fakelos.usedCoins = stelno.usedCoins
        /\ fakelos.remaining = stelno.remaining
        /\ fakelos.html.hasKeep => fakelos.html.keep = StelnoRows

C4_Witness ==
    /\ SameAllocationInputs
    /\ fakelos.cashTotal = Cents(13565)
    /\ stelno.usedBills[Eur(100)] = 1
    /\ stelno.usedCoins[Cents(5)] = 3
    /\ stelno.remaining = Cents(3530)
    /\ fakelos.html.hasKeep

\* C5: a denomination field that holds a whole count c >= 0 in Count mode holds
\* c again after the switch to Amount mode and back.  The step to Amount mode
\* leaves a value that the switch back turns into c, and the step back to
\* Count mode turns every value that some c becomes in Amount mode into c.
IsWholeCount(val) == val.k = "num" /\ val.v >= 0 /\ val.v % Scale = 0
TripCounts == 0..12

C5_RoundTrip ==
    [][/\ (lastOp' = "toggle" /\ isCountMode /\ ~isCountMode') =>
              \A id \in DenomIds :
                  IsWholeCount(fields[id]) =>
                      ConvertField(fields'[id], id, TRUE) = fields[id]
       /\ (lastOp' = "toggle" /\ ~isCountMode /\ isCountMode') =>
              \A id \in DenomIds : \A c \in TripCounts :
                  fields[id] = ConvertField(Num(Eur(c)), id, FALSE) =>
                      fields'[id] = Num(Eur(c))]_vars

\* Reached only by the two switches: the fractional count 2.5 has become 3,
\* the whole counts 4 (x 0.20) are back.
C5_Witness ==
    /\ lastOp = "toggle"
    /\ isCountMode
    /\ steps = 2
    /\ fields["coin-1"] = Num(Eur(3))
    /\ fields["coin-0-2"] = Num(Eur(4))
    /\ storage.main["coin-0-2"] = Num(Eur(4))

\* C6: after every totals recompute the shown grand total is the sum of the
\* field amounts of all bills, coins and other fields plus the adjustments
\* total (value x face value for a denomination in Count mode, the value as
\* it is otherwise, 0 for an empty or non-numeric field).
C6_GrandTotal ==
    TotalsJustRecomputed => totals.grandTotal = ToFixed2(RefGrandTotal)

C6_Witness ==
    /\ lastOp = "updateTimer"
    /\ isCountMode
    /\ fields["bill-100"] = Num(Eur(2))
    /\ fields["bill-5"] = NaNStr
    /\ fields["coin-1"] = Num(Cents(250))
    /\ totals.grandTotal = 120330

\* C7: after every totals recompute cashTotal = grandTotal - (1000 + adjustments
\* + wolt + efood + mypos + eurobank), unclamped; cashLimitedTotal = cashTotal +
\* adjustments; incomeLimitedTotal = cashTotal + adjustments + mypos + eurobank.
C7_DerivedTotals ==
    TotalsJustRecomputed =>
        /\ totals.cashTotal = ToFixed2(RefCashTotal)
        /\ totals.cashLimTotal = ToFixed2(RefCashTotal + RefAdjustmentsTotal)
        /\ totals.incomeLimTotal =
               ToFixed2(RefCashTotal + RefAdjustmentsTotal + RefChannel("mypos")
                        + RefChannel("eurobank"))

\* The empty store after a confirmed reset of a session that held card
\* channels and adjustments: -1000.00 in all three.
C7_Witness ==
    /\ lastOp = "reset"
    /\ currentExodaCount = 3
    /\ totals.cashTotal = -100000
    /\ totals.cashLimTotal = -100000
    /\ totals.incomeLimTotal = -100000

\* C8: a mode switch replaces every denomination field that holds a non-empty,
\* non-zero, numeric value v by round(v / face value) on the way to Count mode
\* and by v x face value rounded to 2 decimals on the way to Amount mode, and
\* leaves every empty, zero or non-numeric denomination field as it was.
\* a / b to the nearest integer, a half going up, for b > 0.
RefRound(a, b) ==
    LET lo == a \div b
    IN IF 2 * (a - lo * b) >= b THEN lo + 1 ELSE lo

RefConverted(val, id, toCount) ==
    IF val.k = "num" /\ val.v # 0
    THEN IF toCount
         THEN Num(Eur(RefRound(val.v, denominationValues[id])))
         ELSE Num(Cents(RefRound(TimesFace(val.v, id), UnitsPerCent)))
    ELSE val

C8_ModeSwitchConverts ==
    [][lastOp' = "toggle" =>
           \A id \in DenomIds : fields'[id] = RefConverted(fields[id], id, isCountMode')]_vars

\* After the switch to Amount mode: -2 x 10 is -20, 4 x 0.20 is 0.80, the
\* non-numeric and the empty field are as they were.
C8_Witness ==
    /\ lastOp = "toggle"
    /\ ~isCountMode
    /\ fields["bill-10"] = Num(Eur(-20))
    /\ fields["coin-0-2"] = Num(Cents(80))
    /\ fields["bill-5"] = NaNStr
    /\ fields["bill-100"] = Empty

\* C9: toggleInputMode(m) while the mode is m already changes no field value,
\* not the mode, not the shown totals, not the persisted snapshot (nor the
\* invalid flags or the timers).
C9_SameModeIsNoOp ==
    [][(lastOp' \in {"toggle", "toggleNoop"} /\ isCountMode' = isCountMode) =>
           UNCHANGED <<fields, exoda, invalid, isCountMode, currentExodaCount, totals,
                       storage, timers>>]_vars

\* The active mode requested while an edit's recompute and save are pending:
\* the totals stay the stale ones and nothing has been saved.
C9_Witness ==
    /\ lastOp = "toggleNoop"
    /\ isCountMode
    /\ fields["bill-100"] = Num(Eur(2))
    /\ UpdateMain \in timers
    /\ totals.grandTotal # ToFixed2(RefGrandTotal)
    /\ storage.main["bill-100"] = Num(Eur(1))

\* C10: in Amount mode a non-empty denomination field is shown valid exactly
\* when its parsed value modulo the face value is within 0.001 of 0 or of the
\* face value; every other non-empty value (a negative amount that is no
\* multiple, a text that parses to no number) is flagged invalid.  Stated of
\* the field an input event has just changed.
Within(a, b) == a - b < 100 /\ b - a < 100

RefValidAmount(val, id) ==
    /\ val.k = "num"
    /\ LET m == JsRem(val.v, denominationValues[id])
       IN Within(m, 0) \/ Within(m, denominationValues[id])

C10_AmountValidity ==
    [][(lastOp' = "input" /\ ~isCountMode) =>
           \A id \in DenomIds :
               (fields'[id] # fields[id] /\ ~IsEmpty(fields'[id])) =>
                   ((id \notin invalid') <=> RefValidAmount(fields'[id], id))]_vars

\* ------------------------------------------------------------------ C11
\* The non-negative integers a count field may hold.
WholeCounts == 0..100
RefValidCount(val) == \E c \in WholeCounts : val = Num(Eur(c))

\* C11: in Count mode a non-empty denomination field is shown valid exactly
\* when its parsed value is a non-negative integer: after an edit of the field
\* in Count mode, and for every denomination field after a switch to Count
\* mode, negative, fractional and non-numeric values carry the invalid mark.
C11_CountValidity ==
    [][/\ (lastOp' = "input" /\ isCountMode) =>
            \A id \in DenomIds :
                (fields'[id] # fields[id] /\ ~IsEmpty(fields'[id])) =>
                    ((id \notin invalid') <=> RefValidCount(fields'[id]))
       /\ (lastOp' = "toggle" /\ isCountMode') =>
            \A id \in DenomIds :
                ~IsEmpty(fields'[id]) =>
                    ((id \notin invalid') <=> RefValidCount(fields'[id]))]_vars

\* Count mode after two edits: a negative and a fractional count are marked.
C11_Witness ==
    /\ lastOp = "input"
    /\ isCountMode
    /\ fields["bill-20"] = Num(Eur(-30)) /\ "bill-20" \in invalid
    /\ fields["coin-0-2"] = Num(19999) /\ "coin-0-2" \in invalid

\* ------------------------------------------------------------------ C12
\* C12: a declined reset leaves every field value, the mode and the persisted
\* state as they were; a confirmed reset leaves every fixed field and every
\* adjustment entry empty, the mode Amount, none of the keys allValues,
\* allValuesSavedAt, exodaCount and countMode in storage, and the totals those
\* of the empty store.
C12_ResetNeedsConfirmation ==
    [][/\ lastOp' = "resetDeclined" =>
            /\ fields' = fields /\ exoda' = exoda
            /\ isCountMode' = isCountMode /\ storage' = storage
       /\ lastOp' = "reset" =>
            /\ \A id \in MainIds : IsEmpty(fields'[id])
            /\ \A i \in DOMAIN exoda' : IsEmpty(exoda'[i])
            /\ ~isCountMode'
            /\ ~storage'.hasAllValues /\ ~storage'.hasSavedAt
            /\ storage'.exodaCount = 0 /\ storage'.countMode = "absent"
            /\ totals'.grandTotal = 0
            /\ totals'.totalExoda = 0
            /\ totals'.cashTotal = -100000
            /\ totals'.cashLimTotal = -100000
            /\ totals'.incomeLimTotal = -100000]_vars

\* A confirmed reset as the first thing done in a session.
C12_Witness ==
    /\ lastOp = "reset"
    /\ steps = 1
    /\ ~isCountMode
    /\ ~storage.hasAllValues
    /\ totals.cashTotal = -100000

\* ------------------------------------------------------------------ C13
\* C13: when init runs on a snapshot whose save timestamp is more than one
\* hour old, the new session has every field and every adjustment entry
\* empty, the adjustment count at its default and the mode Amount, and none
\* of the snapshot's keys (values, timestamp, adjustment count, mode flag) is
\* left in storage.
C13_ExpiredSnapshotDiscarded ==
    [][(lastOp' = "init" /\ storage.hasSavedAt /\ ~storage'.hasSavedAt) =>
           /\ \A id \in MainIds : IsEmpty(fields'[id])
           /\ \A i \in DOMAIN exoda' : IsEmpty(exoda'[i])
           /\ currentExodaCount' = DefaultExodaCount
           /\ ~isCountMode'
           /\ ~storage'.hasAllValues
           /\ storage'.exodaCount = 0
           /\ storage'.countMode = "absent"]_vars

\* ------------------------------------------------------------------ C14
\* C14: when the list of three adjustment entries is cut to one entry, cutting
\* and then extending it to three again gives back the three amounts that
\* were there: the list createExodaFields(3) makes from the shortened list is
\* the list before the cut.
C14_ShrinkThenGrowKeepsValues ==
    [][(lastOp' = "exodaCount" /\ currentExodaCount = 3 /\ currentExodaCount' = 1) =>
           createExodaFields(exoda', currentExodaCount', 3) = exoda]_vars

\* ------------------------------------------------------------------ C15
\* C15: one resize of the adjustment list from m to n entries leaves the list
\* with exactly the entries 1..n, every entry i <= min(m, n) with the value it
\* had, and every entry in (m, n] empty.
C15_ResizeKeepsRetained ==
    [][lastOp' = "exodaCount" =>
           LET m == currentExodaCount
               n == currentExodaCount'
           IN /\ DOMAIN exoda' = 1..n
              /\ \A i \in 1..n : i <= m => exoda'[i] = exoda[i]
              /\ \A i \in 1..n : i > m => IsEmpty(exoda'[i])]_vars

\* The list of three saved amounts cut to two entries.
C15_Witness ==
    /\ lastOp = "exodaCount"
    /\ currentExodaCount = 2
    /\ exoda = <<Num(Eur(10)), Num(Cents(2050))>>

\* ------------------------------------------------------------------ C16
\* C16: a view computed for a target that is zero or negative after rounding
\* to 2 decimals uses no bill and no coin, shows no uncovered amount, and
\* leaves every leftover count it shows equal to the available count.
C16_NothingToAllocate ==
    /\ (fakelos.shown /\ RoundToCents(fakelos.cashTotal) <= 0) =>
           /\ \A d \in Range(AllDenoms) : UsedOf(fakelos)[d] = 0
           /\ ~fakelos.html.hasWarning
           /\ fakelos.html.hasKeep =>
                  \A i \in 1..Len(AllDenoms) :
                      fakelos.html.keep[i][1] = CountsOf(fakelos)[AllDenoms[i]]
    /\ (stelno.shown /\ RoundToCents(stelno.cashTotal) <= 0) =>
           /\ \A d \in Range(AllDenoms) : UsedOf(stelno)[d] = 0
           /\ \A i \in 1..Len(AllDenoms) :
                  StelnoRows[i][1] = CountsOf(stelno)[AllDenoms[i]]

\* ------------------------------------------------------------------ C17
\* The field amounts added up in no particular order.
RECURSIVE RefSumOver(_)
RefSumOver(S) ==
    IF S = {} THEN 0
    ELSE LET id == CHOOSE x \in S : TRUE
         IN RefFieldAmount(id) + RefSumOver(S \ {id})

\* C17: the grand total shown after a totals recompute is fixed by the values
\* the fields hold then and the mode, whatever the order in which the fields
\* were edited: it is the sum of the field amounts taken in any order plus
\* the adjustments total.
C17_OrderIndependent ==
    TotalsJustRecomputed => totals.grandTotal = ToFixed2(RefSumOver(MainIds) + RefAdjustmentsTotal)

\* Two fields edited in one session (TLC reaches this state by both orders).
C17_Witness ==
    /\ lastOp = "updateTimer"
    /\ steps = 2
    /\ timers \cap {UpdateMain, UpdateExoda} = {}
    /\ fields["wolt"] = Num(Eur(25))
    /\ fields["bill-100"] = Num(Eur(2))
    /\ \A id \in MainIds \ {"wolt", "bill-100"} : IsEmpty(fields[id])
    /\ totals.grandTotal = 2700

\* ------------------------------------------------------------------ C18, C19
\* A run of either view with the given target (in cents) and the given stock.
RanWith(run, target, stock) ==
    /\ run.shown
    /\ RoundToCents(run.cashTotal) = Cents(target)
    /\ \A d \in Range(AllDenoms) :
           CountsOf(run)[d] = IF d \in DOMAIN stock THEN stock[d] ELSE 0

\* What a run used, and what is left uncovered (in cents).
UsedExactly(run, used, uncovered) ==
    /\ \A d \in Range(AllDenoms) :
           UsedOf(run)[d] = IF d \in DOMAIN used THEN used[d] ELSE 0
    /\ run.remaining = Cents(uncovered)

\* C18: with one 100 bill and one 50 bill available, no other bill and no coin,
\* and a target of 135.00, the allocation uses exactly one 100 bill and leaves
\* 35.00 uncovered (which the breakdown shows as missing).
C18_BillsScenario ==
    LET stock == Eur(100) :> 1 @@ Eur(50) :> 1
        used == Eur(100) :> 1
    IN /\ RanWith(fakelos, 13500, stock) =>
              /\ UsedExactly(fakelos, used, 3500)
              /\ fakelos.html.hasWarning /\ fakelos.html.warning = 3500
       /\ RanWith(stelno, 13500, stock) => UsedExactly(stelno, used, 3500)

C18_Witness ==
    /\ lastOp = "fakelos"
    /\ RanWith(fakelos, 13500, Eur(100) :> 1 @@ Eur(50) :> 1)
    /\ fakelos.usedBills[Eur(100)] = 1

\* C19: with no bill, coins 5 x 2, 5 x 1, 2 x 0.50 and 1 x 0.20 available (none
\* of 0.10 and 0.05) and a target of 17.35, the allocation uses all of these
\* coins (16.20) and leaves 1.15 uncovered.
C19_CoinsScenario ==
    LET stock == Eur(2) :> 5 @@ Eur(1) :> 5 @@ Cents(50) :> 2 @@ Cents(20) :> 1
    IN /\ RanWith(fakelos, 1735, stock) =>
              /\ UsedExactly(fakelos, stock, 115)
              /\ fakelos.html.putTotal = 1620
              /\ fakelos.html.hasWarning /\ fakelos.html.warning = 115
       /\ RanWith(stelno, 1735, stock) => UsedExactly(stelno, stock, 115)

C19_Witness ==
    /\ lastOp = "fakelos"
    /\ RanWith(fakelos, 1735, Eur(2) :> 5 @@ Eur(1) :> 5 @@ Cents(50) :> 2 @@ Cents(20) :> 1)
    /\ fakelos.usedCoins[Cents(20)] = 1

\* ------------------------------------------------------------------ C20
\* C20: in Amount mode, 0.19999 typed into the 0.20 coin field leaves the
\* field without the invalid mark.
C20_JustBelowFaceValueIsValid ==
    [][(lastOp' = "input" /\ ~isCountMode
        /\ fields["coin-0-2"] # Num(19999) /\ fields'["coin-0-2"] = Num(19999)) =>
           "coin-0-2" \notin invalid']_vars

C20_Witness ==
    /\ lastOp = "input"
    /\ steps = 1
    /\ ~isCountMode
    /\ fields["coin-0-2"] = Num(19999)
    /\ "coin-0-2" \notin invalid

\* ------------------------------------------------------------------ C21
\* The executions of updateTotals / saveAllValues that the set timers stand for.
PendingRuns(kind) == Cardinality({t \in timers : t[1] = kind})

\* C21: whatever fields a burst of input events touches, it leaves one
\* execution of updateTotals and one execution of saveAllValues to follow:
\* never more than one timer of either kind is set.
C21_BurstCoalesced ==
    /\ PendingRuns("update") <= 1
    /\ PendingRuns("save") <= 1

\* ------------------------------------------------------------------ C22
\* The handlers that end with saveAllValues.
SaveOps == {"saveTimer", "pagehide", "toggle"}

\* C22: when the page is loaded again right after saveAllValues has run, less
\* than one hour later, init leaves every fixed field and every adjustment
\* entry with the value it had at the save, the same number of adjustment
\* entries and the same mode.
C22_SaveRestoreRoundTrip ==
    [][(lastOp \in SaveOps /\ lastOp' = "init" /\ storage'.hasSavedAt) =>
           /\ fields' = fields
           /\ exoda' = exoda
           /\ currentExodaCount' = currentExodaCount
           /\ isCountMode' = isCountMode]_vars

\* ------------------------------------------------------------------ C23
\* The greedy reference, in cents: the fields in the order 100, 50, 20, 10, 5,
\* 2, 1, 0.50, 0.20, 0.10, 0.05 and their face values.
RefOrder == bills \o coins
RefFace(i) == denominationCents[RefOrder[i]]
RefIsCoin(i) == i > Len(bills)

\* round(storedValue) in Count mode, round(storedValue / faceValue) otherwise.
RefAvailable(i) ==
    RefRound(ParseOrZero(fields[RefOrder[i]]),
             IF isCountMode THEN Scale ELSE denominationValues[RefOrder[i]])

\* floor(r / d) for a bill and floor((r + 0.001) / d) for a coin, r and d in cents.
RefNeeded(i, r) ==
    IF RefIsCoin(i) THEN (10 * r + 1) \div (10 * RefFace(i)) ELSE r \div RefFace(i)

RECURSIVE RefGreedy(_, _, _)
RefGreedy(i, r, used) ==
    IF i > Len(RefOrder) \/ r <= 0 THEN [r |-> r, used |-> used]
    ELSE LET u == Min(RefNeeded(i, r), RefAvailable(i))
         IN IF u > 0
            THEN RefGreedy(i + 1, r - u * RefFace(i), [used EXCEPT ![i] = u])
            ELSE RefGreedy(i + 1, r, used)

IsGreedyReference(run) ==
    LET ref == RefGreedy(1, run.cashTotal \div UnitsPerCent, [i \in 1..Len(RefOrder) |-> 0])
    IN /\ \A i \in 1..Len(RefOrder) :
              /\ CountsOf(run)[Cents(RefFace(i))] = RefAvailable(i)
              /\ UsedOf(run)[Cents(RefFace(i))] = ref.used[i]
       /\ run.remaining = Cents(ref.r)

\* C23: a view just computed holds exactly the greedy reference: available
\* counts round(value) in Count mode and round(value / face value) in Amount
\* mode; denominations in the order 100 ... 0.05 while the remainder is > 0;
\* used = min(floor(r / d), available) for a bill, min(floor((r + 0.001) / d),
\* available) for a coin; a use > 0 is recorded and taken off the remainder,
\* which is rounded to 2 decimals.
C23_GreedyReference ==
    /\ lastOp = "fakelos" => IsGreedyReference(fakelos)
    /\ lastOp = "stelno" => IsGreedyReference(stelno)

\* 135.65 against 1 x 100, 1 x 50, 1 x 0.20 and 3 x 0.05: a bill and coins are
\* used and 35.30 stays uncovered.
C23_Witness ==
    /\ lastOp = "fakelos"
    /\ fakelos.cashTotal = Cents(13565)
    /\ fakelos.usedBills[Eur(100)] = 1
    /\ fakelos.usedCoins[Cents(5)] = 3
    /\ fakelos.remaining = Cents(3530)

\* ------------------------------------------------------------------ C24
\* C24: greedy is not shortfall-optimal. With one 50 bill and three 20 bills
\* and nothing else, three 20 bills make the target 60 exactly, yet the
\* allocation takes the 50 bill, can place no 20 bill and leaves 10 uncovered.
C24_GreedyNotOptimal ==
    LET stock == Eur(50) :> 1 @@ Eur(20) :> 3
    IN /\ RanWith(fakelos, 6000, stock) =>
              /\ 3 * Eur(20) = RoundToCents(fakelos.cashTotal)
              /\ 3 <= CountsOf(fakelos)[Eur(20)]
              /\ fakelos.remaining = Eur(10)
              /\ fakelos.html.hasWarning
       /\ RanWith(stelno, 6000, stock) =>
              /\ 3 * Eur(20) = RoundToCents(stelno.cashTotal)
              /\ 3 <= CountsOf(stelno)[Eur(20)]
              /\ stelno.remaining = Eur(10)

C24_Witness ==
    /\ lastOp = "fakelos"
    /\ RanWith(fakelos, 6000, Eur(50) :> 1 @@ Eur(20) :> 3)
    /\ fakelos.usedBills[Eur(50)] = 1
    /\ fakelos.usedBills[Eur(20)] = 0
    /\ fakelos.remaining > 0

\* ------------------------------------------------------------------ C25
\* The value of what a run used, in units.
RECURSIVE RefUsedValue(_, _)
RefUsedValue(run, i) ==
    IF i > Len(AllDenoms) THEN 0
    ELSE UsedOf(run)[AllDenoms[i]] * AllDenoms[i] + RefUsedValue(run, i + 1)

Conserves(run) ==
    (run.shown /\ RoundToCents(run.cashTotal) > 0) =>
        /\ run.remaining >= 0
        /\ \A d \in Range(AllDenoms) : UsedOf(run)[d] >= 0
        /\ RefUsedValue(run, 1) + run.remaining = RoundToCents(run.cashTotal)

\* C25: for a positive target, whatever the available counts, the allocation
\* never overshoots (the remainder never falls below 0, every use only lowers
\* it) and conserves value: the value of the bills and coins used plus the
\* remainder is the target, so the 0.001 of the coin step never takes a coin
\* larger than the remainder.
C25_ConservesValue ==
    /\ Conserves(fakelos)
    /\ Conserves(stelno)

\* 17.35 paid from coins only, down to the last 0.05.
C25_Witness ==
    /\ fakelos.shown
    /\ RoundToCents(fakelos.cashTotal) = Cents(1735)
    /\ \A d \in Range(billDenominations) : fakelos.usedBills[d] = 0
    /\ fakelos.usedCoins[Cents(5)] = 3
    /\ fakelos.remaining > 0

\* ------------------------------------------------------------------ C26
NothingLeftFits(run) ==
    (run.shown /\ run.remaining > 0) =>
        \A d \in Range(AllDenoms) :
            CountsOf(run)[d] - UsedOf(run)[d] > 0 => d > run.remaining

\* C26: when an allocation ends with a remainder r > 0, every denomination of
\* which something is left over has a face value greater than r: no bill or
\* coin kept back would fit into the shortfall.
C26_NothingLeftFits ==
    /\ NothingLeftFits(fakelos)
    /\ NothingLeftFits(stelno)
    /\ (stelno.shown /\ stelno.remaining > 0) =>
           \A i \in 1..Len(AllDenoms) : StelnoRows[i][1] > 0 => StelnoRows[i][2] > stelno.remaining
    /\ (fakelos.shown /\ fakelos.remaining > 0 /\ fakelos.html.hasKeep) =>
           \A i \in 1..Len(AllDenoms) :
               fakelos.html.keep[i][1] > 0 => fakelos.html.keep[i][2] > fakelos.remaining

\* 135.00 against 1 x 100 and 1 x 50: the 50 bill stays, 35.00 is missing.
C26_Witness ==
    /\ stelno.shown
    /\ RoundToCents(stelno.cashTotal) = Cents(13500)
    /\ stelno.usedBills[Eur(100)] = 1
    /\ CountsOf(stelno)[Eur(50)] = 1 /\ stelno.usedBills[Eur(50)] = 0
    /\ stelno.remaining = Eur(35)

\* ------------------------------------------------------------------ C27
\* The field amounts of the 11 denomination fields, added up.
RefDenominationsTotal == RefSumOver(DenomIds)

\* C27: after every totals recompute cashTotal = (sum of the field amounts of
\* the 11 denomination fields) + kermata - 1000: neither the adjustment entries
\* nor wolt, efood, mypos and eurobank have any part in it.
C27_CashTotalIndependent ==
    TotalsJustRecomputed =>
        totals.cashTotal =
            ToFixed2(RefDenominationsTotal + ParseOrZero(fields["kermata"]) - Eur(1000))

\* The restored session with a cash total of 260.00, with
\* adjustments and card channels filled in, after one more channel was edited.
C27_Witness ==
    /\ lastOp = "updateTimer"
    /\ fields["efood"] = Num(Cents(1250))
    /\ fields["wolt"] = Num(Eur(25))
    /\ currentExodaCount = 3 /\ exoda[1] = Num(Eur(10))
    /\ totals.cashTotal = 26000

\* ------------------------------------------------------------------ C28
\* Every denomination field is empty or reported valid in the mode in force.
AllDenominationsValid(f, countMode) ==
    \A id \in DenomIds : IsEmpty(f[id]) \/ ~validateInput(f[id], id, countMode)

\* C28: when every denomination field is empty or reported valid, a mode
\* switch leaves the grand total and the cash total of the field values, and
\* the available count of every denomination, as they were before the switch.
C28_ValidStoreSurvivesSwitch ==
    [][(lastOp' = "toggle" /\ AllDenominationsValid(fields, isCountMode)) =>
           LET before == updateTotals(fields, exoda, currentExodaCount, isCountMode)
           IN /\ totals'.grandTotal = before.grandTotal
              /\ totals'.cashTotal = before.cashTotal
              /\ FakelosCounts(fields', bills, isCountMode')
                     = FakelosCounts(fields, bills, isCountMode)
              /\ FakelosCounts(fields', coins, isCountMode')
                     = FakelosCounts(fields, coins, isCountMode)]_vars

\* ------------------------------------------------------------------ C29
\* C29: in every reachable state each denomination field carries the invalid
\* mark exactly when validateInput, applied to the value it holds and the mode
\* in force, reports it invalid.
C29_FlagsMatchValidation ==
    \A id \in DenomIds : (id \in invalid) <=> validateInput(fields[id], id, isCountMode)

\* ------------------------------------------------------------------ C30
\* The outputs show the totals of the values and the mode in force.
TotalsCurrent == totals = updateTotals(fields, exoda, currentExodaCount, isCountMode)

\* The snapshot in storage is the values and the mode in force; no snapshot
\* stands for the empty store in Amount mode.
SnapshotCurrent ==
    /\ storage.main = fields
    /\ \A i \in 1..currentExodaCount : storage.exoda[i] = exoda[i]
    /\ storage.countMode = (IF isCountMode THEN "true" ELSE "false")
       \/ (storage.countMode = "absent" /\ ~isCountMode)

\* C30: when the timers fire fairly, every session ends, after the last
\* action of the user, with the outputs showing the totals of the final
\* values and mode and with the snapshot in storage holding the final values
\* and mode.
C30_EventuallyConsistent == <>[](TotalsCurrent /\ SnapshotCurrent)

====
